---------------------------- MODULE Spec2Model ----------------------------
(***************************************************************************)
(* Image resolution with platform verification in the image service:       *)
(* GetImage, manifestMatchesPlatform and OnlyPlatformWithFallback of        *)
(* daemon/images (src/daemon/images/image_push.go, second file in it).      *)
(*                                                                         *)
(* The stores GetImage reads (reference store, image store, lease registry, *)
(* content store) are state; a GetImage call runs as a sequence of steps,   *)
(* one per external call of the manifest list scan.                         *)
(***************************************************************************)
EXTENDS Integers, Sequences, FiniteSets, TLC

(***************************************************************************)
(* Bounds of the model.                                                    *)
(***************************************************************************)
\* longest lease resource list the lease registry returns
MaxRes == 2
\* most entries of one manifest list
MaxEntries == 2

Nil == [kind |-> "nil"]

(***************************************************************************)
(* Platform specifications (ocispec.Platform): OS, Architecture, Variant.   *)
(***************************************************************************)
OSes == {"linux", "windows"}
Architectures == {"amd64", "arm", "arm64"}
Variants == {"", "v6", "v7", "v8"}
Platforms == [OS : OSes, Architecture : Architectures, Variant : Variants]

Plat(os, arch, variant) == [OS |-> os, Architecture |-> arch, Variant |-> variant]

\* position of an ARM variant in its compatibility family
VariantRank(v) ==
    CASE v = "v6" -> 6
      [] v = "v7" -> 7
      [] v = "v8" -> 8
      [] OTHER -> 0

\* the variant platforms.Normalize implies for an architecture that declares none
DefaultVariant(arch) ==
    CASE arch = "arm" -> "v7"
      [] arch = "arm64" -> "v8"
      [] OTHER -> ""

\* platforms.Normalize: a platform with no variant gets the implied default one
Normalize(p) ==
    IF p.Variant = "" THEN [p EXCEPT !.Variant = DefaultVariant(p.Architecture)]
    ELSE p

\* whether a candidate variant satisfies a desired (set) variant: equal, or a
\* lower ARM variant under a higher one
VariantCompatible(arch, want, have) ==
    \/ have = want
    \/ /\ arch = "arm"
       /\ have # ""
       /\ VariantRank(have) <= VariantRank(want)

\* platforms.Only(p).Match(other), the baseline matcher: OS and architecture
\* equal and, when p sets a variant, other's variant compatible with it
OnlyMatch(p, other) ==
    /\ p.OS = other.OS
    /\ p.Architecture = other.Architecture
    /\ (p.Variant = "" \/ VariantCompatible(p.Architecture, p.Variant, other.Variant))

\* OnlyPlatformWithFallback(p): the matcher value {only: Only(p), p: Normalize(p)}
OnlyPlatformWithFallback(p) == [only |-> p, p |-> Normalize(p)]

\* onlyFallbackMatcher.Match without the variant guard (fallback applied to any
\* candidate the baseline rejects)
MatchNoVariantGuard(m, other) ==
    IF OnlyMatch(m.only, other) THEN TRUE
    ELSE LET otherN == Normalize(other)
         IN  m.p.OS = otherN.OS /\ m.p.Architecture = otherN.Architecture

\* onlyFallbackMatcher.Match comparing the OS only in the fallback
MatchOSOnly(m, other) ==
    IF OnlyMatch(m.only, other) THEN TRUE
    ELSE IF other.Variant # "" THEN FALSE
    ELSE LET otherN == Normalize(other)
         IN  m.p.OS = otherN.OS

\* onlyFallbackMatcher.Match with no fallback at all
MatchNoFallback(m, other) == OnlyMatch(m.only, other)

\* (m *onlyFallbackMatcher) Match(other)
Match(m, other) ==
    IF OnlyMatch(m.only, other) THEN TRUE
    ELSE IF other.Variant # "" THEN FALSE
    ELSE LET otherN == Normalize(other)
         IN  m.p.OS = otherN.OS /\ m.p.Architecture = otherN.Architecture

\* platforms.FormatAll(p): the platform as one string, its non-empty parts
\* joined by "/"; kept as the tuple of the parts
FormatAll(p) ==
    IF p.OS = "" THEN <<"unknown">>
    ELSE SelectSeq(<<p.OS, p.Architecture, p.Variant>>, LAMBDA s : s # "")


(***************************************************************************)
(* References (github.com/distribution/reference).                          *)
(***************************************************************************)
RefStrings == {"Bad Ref", "docker.io/library/busybox:latest", "sha256:id1"}

\* reference.ParseAnyReference: a named reference, a digest-only reference, or
\* a parse error
ParseAnyReference(s) ==
    CASE s = "Bad Ref" -> [kind |-> "invalid", ref |-> s, digest |-> ""]
      [] s = "sha256:id1" -> [kind |-> "digested", ref |-> s, digest |-> "id1"]
      [] OTHER -> [kind |-> "named", ref |-> s, digest |-> ""]

\* reference.ParseNamed accepts canonical names only
ParseNamedOK(s) == s = "docker.io/library/busybox:latest"

\* reference.FamiliarString
FamiliarString(s) ==
    IF s = "docker.io/library/busybox:latest" THEN "busybox:latest" ELSE s

(***************************************************************************)
(* Stored data.                                                            *)
(***************************************************************************)
ImageIDs == {"id1", "id2"}
NoID == "none"

\* denormalized platform fields an image record may carry; the last is a
\* record whose config set none of them
ImgPlatforms ==
    { Plat("linux", "arm", ""), Plat("linux", "amd64", ""),
      Plat("linux", "arm", "v6"), Plat("", "", "") }

\* platforms a caller asks for
ReqPlatforms == { Plat("linux", "arm", "v7"), Plat("linux", "amd64", "") }

Image(id, p) ==
    [ID |-> id, OS |-> p.OS, Architecture |-> p.Architecture, Variant |-> p.Variant]

\* media types of manifest list entries
MediaTypeImageManifest == "application/vnd.oci.image.manifest.v1+json"
MediaTypeDockerSchema2Manifest == "application/vnd.docker.distribution.manifest.v2+json"
MediaTypeImageIndex == "application/vnd.oci.image.index.v1+json"
MediaTypes == {MediaTypeImageManifest, MediaTypeDockerSchema2Manifest, MediaTypeImageIndex}

ListDigests == {"ml1", "ml2"}
ManifestDigests == {"mf1", "mf2"}
Digests == ListDigests \cup ManifestDigests
ConfigDigests == {"id1", "other"}
EntryPlatforms == { Plat("linux", "arm", "v7"), Plat("linux", "arm", "") }

\* one descriptor of a manifest list
Entry(mt, d, p) == [MediaType |-> mt, Digest |-> d, Platform |-> p]

\* the descriptors of the model's manifest lists: an OCI manifest for
\* linux/arm/v7, and the same with another media type, digest or platform
Entries ==
    { Entry(mt, "mf1", Plat("linux", "arm", "v7")) : mt \in MediaTypes }
    \cup { Entry(MediaTypeImageManifest, d, Plat("linux", "arm", "v7")) : d \in ManifestDigests }
    \cup { Entry(MediaTypeImageManifest, "mf1", p) : p \in EntryPlatforms }

\* What the content store holds under a digest, by what reading it yields:
\*   notfound  ReaderAt fails with a not-found error
\*   openerr   ReaderAt fails with another error
\*   readerr   io.ReadAll fails
\*   badjson   the bytes (cut at 1e6) are not valid JSON: Unmarshal changes nothing
\*   partial   valid JSON with a field of the wrong type: Unmarshal stores the
\*             fields it could decode and returns an error
\*   json      a JSON object, with or without "manifests" and "config" keys
ErrBlob(k) == [kind |-> k, Manifests |-> <<>>, hasConfig |-> FALSE, ConfigDigest |-> ""]
ListBlob(es) == [kind |-> "json", Manifests |-> es, hasConfig |-> FALSE, ConfigDigest |-> ""]
ManifestBlob(d) == [kind |-> "json", Manifests |-> <<>>, hasConfig |-> TRUE, ConfigDigest |-> d]
PartialManifest(d) == [kind |-> "partial", Manifests |-> <<>>, hasConfig |-> TRUE, ConfigDigest |-> d]

SeqsUpTo(S, n) == UNION { [1..k -> S] : k \in 0..n }

\* lease resources: content blobs and one snapshot
Resource(id, type) == [ID |-> id, Type |-> type]
Resources ==
    { Resource(d, "content") : d \in ListDigests } \cup { Resource("snap1", "snapshots/overlayfs") }

IsInjective(s) == \A i, j \in 1..Len(s) : s[i] = s[j] => i = j

\* an error of the lease registry other than not-found
LeaseUnavailable == [kind |-> "Unavailable", msg |-> << <<"lease store unavailable">> >>]

LeasesOK(rs) == [kind |-> "ok", resources |-> rs, err |-> Nil]
LeasesNotFound == [kind |-> "notfound", resources |-> <<>>, err |-> Nil]
LeasesError == [kind |-> "error", resources |-> <<>>, err |-> LeaseUnavailable]

VARIABLES
    \* the stores
    referenceStore,   \* named reference string -> image ID or NoID
    searchIndex,      \* search key -> image ID or NoID
    imageStore,       \* image ID -> image record or Nil
    leases,           \* what ListResources answers for the image's lease
    content,          \* digest -> blob
    \* one GetImage call
    pc,               \* "idle", "list", "scan", "entries", "done"
    refOrID, options, \* the call's arguments
    retImg, retErr,   \* the named results
    mmp,              \* manifestMatchesPlatform: called, returned, found, err
    ls, ri,           \* the lease resources and the index of the next one
    ml, mi,           \* ml.Manifests and the index of the next entry
    m,                \* m.Config.Digest
    calls,            \* the external calls made, in order
    ctx,              \* the call's context: cancelled or not
    \* one evaluation of the matcher
    mDesired, mCandidate, mResult,
    \* the test daemon (testutil/daemon)
    extraEnv,         \* d.extraEnv: strings, each a sequence of characters
    envLatest,        \* variable name -> the value of the last SetEnvVar call for it
    logFile,          \* the lines of the daemon's log file
    matcher,          \* a function made by ScanLogsMatchCount: count and matched
    scanned,          \* the last ScanLogs call: how many were made, and its result
    proc,             \* the daemon process: "none", "running", "serving" (answers
                      \* /_ping), "exited", "reaped" (cmd.Wait returned), "gone"
    exitErr,          \* what cmd.Wait returns for the process
    cmd,              \* d.cmd: "nil" or "set"
    Wait,             \* the channel d.Wait
    hpc,              \* where a StartWithLogFile or StopWithError call stands
    attempt,          \* i of StopWithError
    signals,          \* the signals the last StopWithError call sent, in order
    hret,             \* the last call of the two and what it returned
    timedOut,         \* the 60 second context of StartWithLogFile is done
    answered,         \* a /_ping of this StartWithLogFile call was answered
    \* what the caller of GetImage got from its call before the stores changed
    prev,
    \* one PushImage call
    ppc,              \* "idle", "check", "pushing", "waiting"
    pushArgs,         \* ref and platform
    progressChan,     \* the buffered items and the number of close calls
    writer,           \* the progress writer goroutine: "none", "running", "done"
    writesDone,       \* the channel writesDone is closed
    pushErr,          \* what distribution.Push returned
    pret,             \* what the last PushImage call returned
    pushLog           \* what the PushImage call did so far, in order

storeVars == <<referenceStore, searchIndex, imageStore, leases, content>>
callVars == <<pc, refOrID, options, retImg, retErr, mmp, ls, ri, ml, mi, m, calls>>
matchVars == <<mDesired, mCandidate, mResult>>
envVars == <<extraEnv, envLatest>>
logVars == <<logFile, matcher, scanned>>
daemonVars == <<proc, exitErr, cmd, Wait, hpc, attempt, signals, hret, timedOut, answered>>
harnessVars == <<envVars, logVars, daemonVars>>
histVars == <<prev>>
pushVars == <<ppc, pushArgs, progressChan, writer, writesDone, pushErr, pret, pushLog>>
vars == <<storeVars, callVars, ctx, matchVars, harnessVars, histVars, pushVars>>

Call(op, arg) == [op |-> op, arg |-> arg]

(***************************************************************************)
(* The test daemon's data (testutil/daemon).                                 *)
(***************************************************************************)
\* names and values of environment variables, as sequences of characters
EnvNames == { <<"A">>, <<"B">>, <<"A", "B">> }
EnvValues == { <<"1">>, <<"2">> }
NoValue == <<>>

\* a log line on which the function f given to ScanLogsMatchCount holds, and
\* one on which it does not
LogLines == {"hit", "miss"}
NoScanLogs == [calls |-> 0, ok |-> FALSE, line |-> ""]

\* a channel of capacity one: not made, or its buffer and whether it is closed
NilChan == [made |-> FALSE, q |-> <<>>, closed |-> FALSE]
MakeChan == [made |-> TRUE, q |-> <<>>, closed |-> FALSE]
CanReceive(ch) == ch.made /\ (ch.q # <<>> \/ ch.closed)
Received(ch) == IF ch.q # <<>> THEN Head(ch.q) ELSE Nil
AfterReceive(ch) == [ch EXCEPT !.q = IF ch.q # <<>> THEN Tail(ch.q) ELSE <<>>]

NoReturn == [call |-> "none", how |-> "", err |-> Nil]
Returns(call, how, err) == [call |-> call, how |-> how, err |-> err]

\* what a caller remembers of an earlier GetImage call: nothing yet
NoPrev == [ref |-> "", options |-> [Platform |-> Nil], err |-> Nil, img |-> Nil]

NoPushArgs == [ref |-> "", platform |-> Nil]
NoProgressChan == [q |-> 0, closes |-> 0]

\* the context of a call that its caller has not cancelled
LiveCtx == [done |-> FALSE, obeyed |-> FALSE, at |-> 0, inScan |-> FALSE]

\* ctx.Err() of a cancelled context, as a store's call returns it
ErrCanceled == [kind |-> "Canceled", msg |-> << <<"context canceled">> >>, ref |-> ""]

(***************************************************************************)
(* Errors: kind, message (a sequence of parts, each a tuple of strings) and  *)
(* the reference an ErrImageDoesNotExist carries.                            *)
(***************************************************************************)
\* errdefs.InvalidParameter(err) of a reference parse error
ErrInvalidParameter(s) ==
    [kind |-> "InvalidParameter", msg |-> << <<"invalid reference format">> >>, ref |-> ""]

\* ErrImageDoesNotExist{Ref: ref}
ErrImageDoesNotExist(ref) ==
    [kind |-> "ErrImageDoesNotExist",
     msg |-> << <<"No such image: ">>, <<FamiliarString(ref)>> >>,
     ref |-> ref]

\* the name the mismatch error shows: the familiar form of a canonical name,
\* else the string as given
ImgName(s) == IF ParseNamedOK(s) THEN FamiliarString(s) ELSE s

\* the mismatch error without the recorded platform in its message
MismatchErrorNoRecorded(s, imgPlat, p) ==
    [kind |-> "NotFound",
     msg |-> << <<"image with reference ">>, <<ImgName(s)>>,
                <<" was found but its platform does not match the specified platform (">>,
                FormatAll(p), <<")">> >>,
     ref |-> ""]

\* errdefs.NotFound(errors.Errorf("image with reference %s was found but its
\* platform (%s) does not match the specified platform (%s)", ...))
MismatchError(s, imgPlat, p) ==
    [kind |-> "NotFound",
     msg |-> << <<"image with reference ">>, <<ImgName(s)>>,
                <<" was found but its platform (">>, FormatAll(imgPlat),
                <<") does not match the specified platform (">>, FormatAll(p), <<")">> >>,
     ref |-> ""]

\* the platform GetImage builds from the record's denormalized fields
ImgPlat(img) == Plat(img.OS, img.Architecture, img.Variant)

\* imageKey(id): the ID of the lease of an image
imageKey(id) == <<"moby-image-", id>>

NamedRefs == { s \in RefStrings : ParseAnyReference(s).kind = "named" }

\* the lookup with a reference that does not parse handed to the search by ID
ResolveSearchesUnparsed(s) ==
    LET ref == ParseAnyReference(s)
        out(img, err, cs) == [img |-> img, err |-> err, calls |-> cs]
    IN  IF ref.kind = "invalid"
        THEN out(Nil, ErrImageDoesNotExist(s), <<Call("imageStore.Search", s)>>)
        ELSE IF ref.kind # "named" THEN
            LET c == <<Call("imageStore.Get", ref.digest)>>
                got == imageStore[ref.digest]
            IN  IF got # Nil THEN out(got, Nil, c)
                ELSE out(Nil, ErrImageDoesNotExist(s), c)
        ELSE
            LET dgst == referenceStore[s]
                c1 == <<Call("referenceStore.Get", s)>>
                      \o (IF dgst # NoID THEN <<Call("imageStore.Get", dgst)>> ELSE <<>>)
                id == searchIndex[s]
                c2 == c1 \o <<Call("imageStore.Search", s)>>
                c3 == c2 \o <<Call("imageStore.Get", id)>>
            IN  IF dgst # NoID /\ imageStore[dgst] # Nil THEN out(imageStore[dgst], Nil, c1)
                ELSE IF id # NoID THEN
                    IF imageStore[id] # Nil THEN out(imageStore[id], Nil, c3)
                    ELSE out(Nil, ErrImageDoesNotExist(s), c3)
                ELSE out(Nil, ErrImageDoesNotExist(s), c2)

\* the lookup of a named reference without the search by ID after a failed
\* reference store lookup
ResolveNoSearch(s) ==
    LET ref == ParseAnyReference(s)
        out(img, err, cs) == [img |-> img, err |-> err, calls |-> cs]
    IN  IF ref.kind = "invalid" THEN out(Nil, ErrInvalidParameter(s), <<>>)
        ELSE IF ref.kind # "named" THEN
            LET c == <<Call("imageStore.Get", ref.digest)>>
                got == imageStore[ref.digest]
            IN  IF got # Nil THEN out(got, Nil, c)
                ELSE out(Nil, ErrImageDoesNotExist(s), c)
        ELSE
            LET dgst == referenceStore[s]
                c1 == <<Call("referenceStore.Get", s)>>
                      \o (IF dgst # NoID THEN <<Call("imageStore.Get", dgst)>> ELSE <<>>)
            IN  IF dgst # NoID /\ imageStore[dgst] # Nil THEN out(imageStore[dgst], Nil, c1)
                ELSE out(Nil, ErrImageDoesNotExist(s), c1)

\* the body of GetImage: parse the reference and look the image up.
\* Gives the record, the error and the store calls made.
Resolve(s) ==
    LET ref == ParseAnyReference(s)
        out(img, err, cs) == [img |-> img, err |-> err, calls |-> cs]
    IN  IF ref.kind = "invalid" THEN out(Nil, ErrInvalidParameter(s), <<>>)
        ELSE IF ref.kind # "named" THEN
            LET c == <<Call("imageStore.Get", ref.digest)>>
                got == imageStore[ref.digest]
            IN  IF got # Nil THEN out(got, Nil, c)
                ELSE out(Nil, ErrImageDoesNotExist(s), c)
        ELSE
            LET dgst == referenceStore[s]
                c1 == <<Call("referenceStore.Get", s)>>
                      \o (IF dgst # NoID THEN <<Call("imageStore.Get", dgst)>> ELSE <<>>)
                id == searchIndex[s]
                c2 == c1 \o <<Call("imageStore.Search", s)>>
                c3 == c2 \o <<Call("imageStore.Get", id)>>
            IN  IF dgst # NoID /\ imageStore[dgst] # Nil THEN out(imageStore[dgst], Nil, c1)
                ELSE IF id # NoID THEN
                    IF imageStore[id] # Nil THEN out(imageStore[id], Nil, c3)
                    ELSE out(Nil, ErrImageDoesNotExist(s), c3)
                ELSE out(Nil, ErrImageDoesNotExist(s), c2)

NoScan == [called |-> FALSE, returned |-> FALSE, found |-> FALSE, err |-> Nil]

\* GetImage with the scan started for every record found, whatever the options
\* and the record's platform
GetImageAlwaysScan(s, opts) ==
    /\ pc = "idle"
    /\ LET r == Resolve(s)
       IN  /\ refOrID' = s
           /\ options' = opts
           /\ retImg' = r.img
           /\ retErr' = r.err
           /\ calls' = r.calls
           /\ pc' = IF r.err # Nil \/ r.img = Nil THEN "done" ELSE "list"
    /\ UNCHANGED <<mmp, ls, ri, ml, mi, m>>
    /\ UNCHANGED <<storeVars, matchVars, ctx, harnessVars, histVars, pushVars>>

\* GetImage answering from what the call before it with the same reference
\* and platform returned
GetImageCached(s, opts) ==
    /\ pc = "idle"
    /\ LET r == Resolve(s)
           again == prev # NoPrev /\ prev.ref = s /\ prev.options = opts
       IN  /\ refOrID' = s
           /\ options' = opts
           /\ retImg' = IF again THEN prev.img ELSE r.img
           /\ retErr' = IF again THEN prev.err ELSE r.err
           /\ calls' = IF again THEN <<>> ELSE r.calls
           /\ pc' = IF again \/ r.err # Nil \/ r.img = Nil \/ opts.Platform = Nil THEN "done"
                    ELSE IF Match(OnlyPlatformWithFallback(opts.Platform), ImgPlat(r.img))
                         THEN "done"
                    ELSE "list"
    /\ UNCHANGED <<mmp, ls, ri, ml, mi, m>>
    /\ UNCHANGED <<storeVars, matchVars, ctx, harnessVars, histVars, pushVars>>

\* GetImage recording in the reference store the image its search by ID found
\* for a name the store did not know
GetImageRecordsSearch(s, opts) ==
    /\ pc = "idle"
    /\ LET r == Resolve(s)
       IN  /\ refOrID' = s
           /\ options' = opts
           /\ retImg' = r.img
           /\ retErr' = r.err
           /\ calls' = r.calls
           /\ pc' = IF r.err # Nil \/ r.img = Nil \/ opts.Platform = Nil THEN "done"
                    ELSE IF Match(OnlyPlatformWithFallback(opts.Platform), ImgPlat(r.img))
                         THEN "done"
                    ELSE "list"
           /\ referenceStore' =
                IF s \in NamedRefs /\ r.img # Nil /\ referenceStore[s] = NoID
                THEN [referenceStore EXCEPT ![s] = r.img.ID]
                ELSE referenceStore
    /\ UNCHANGED <<mmp, ls, ri, ml, mi, m>>
    /\ UNCHANGED <<searchIndex, imageStore, leases, content, matchVars, ctx, harnessVars, histVars, pushVars>>

(***************************************************************************)
(* GetImage(ctx, refOrID, options): the lookup, then the deferred platform   *)
(* check up to the call of manifestMatchesPlatform.                          *)
(***************************************************************************)
GetImage(s, opts) ==
    /\ pc = "idle"
    /\ LET r == Resolve(s)
       IN  /\ refOrID' = s
           /\ options' = opts
           /\ retImg' = r.img
           /\ retErr' = r.err
           /\ calls' = r.calls
           /\ pc' = IF r.err # Nil \/ r.img = Nil \/ opts.Platform = Nil THEN "done"
                    ELSE IF Match(OnlyPlatformWithFallback(opts.Platform), ImgPlat(r.img))
                         THEN "done"
                    ELSE "list"
    /\ UNCHANGED <<mmp, ls, ri, ml, mi, m>>
    /\ UNCHANGED <<storeVars, matchVars, ctx, harnessVars, histVars, pushVars>>

\* GetImage's use of a scan error: dropped, the mismatch error returned instead
ScanReturnsErrDropped(found, err) ==
    /\ mmp' = [called |-> TRUE, returned |-> TRUE, found |-> found, err |-> err]
    /\ retErr' = IF found THEN Nil
                 ELSE MismatchError(refOrID, ImgPlat(retImg), options.Platform)
    /\ pc' = "done"

\* GetImage's use of the scan result inverted: a match is the mismatch error
ScanReturnsMatchIgnored(found, err) ==
    /\ mmp' = [called |-> TRUE, returned |-> TRUE, found |-> found, err |-> err]
    /\ retErr' = IF err # Nil THEN err
                 ELSE MismatchError(refOrID, ImgPlat(retImg), options.Platform)
    /\ pc' = "done"

\* GetImage's mismatch error naming the requested platform only
ScanReturnsShortMessage(found, err) ==
    /\ mmp' = [called |-> TRUE, returned |-> TRUE, found |-> found, err |-> err]
    /\ retErr' = IF err # Nil THEN err
                 ELSE IF found THEN Nil
                 ELSE MismatchErrorNoRecorded(refOrID, ImgPlat(retImg), options.Platform)
    /\ pc' = "done"

\* manifestMatchesPlatform returns (found, err) and the deferred function of
\* GetImage goes on: a match or an error ends it, else the mismatch error
ScanReturns(found, err) ==
    /\ mmp' = [called |-> TRUE, returned |-> TRUE, found |-> found, err |-> err]
    /\ retErr' = IF err # Nil THEN err
                 ELSE IF found THEN Nil
                 ELSE MismatchError(refOrID, ImgPlat(retImg), options.Platform)
    /\ pc' = "done"


(***************************************************************************)
(* manifestMatchesPlatform(ctx, img, platform).                              *)
(***************************************************************************)
RecognizedMediaTypes == {MediaTypeImageManifest, MediaTypeDockerSchema2Manifest}

\* what i.leases.ListResources(ctx, ...) answers: the registry's answer, or the
\* context's error from a registry that gives up on a cancelled context
Leased ==
    IF ctx.done /\ ctx.obeyed
    THEN [kind |-> "error", resources |-> <<>>, err |-> ErrCanceled]
    ELSE leases

\* what i.content.ReaderAt(ctx, ...) and io.ReadAll give for a digest: the
\* blob, or a failure to open it from a store that gives up on a cancelled
\* context
ReaderAt(d) ==
    IF ctx.done /\ ctx.obeyed
    THEN [kind |-> "openerr", Manifests |-> <<>>, hasConfig |-> FALSE, ConfigDigest |-> ""]
    ELSE content[d]

\* ListResources answered: a not-found answer handled like any other error
LeaseAnswerNotFoundIsError ==
    IF Leased.kind = "ok"
    THEN /\ ls' = Leased.resources
         /\ ri' = 1
         /\ pc' = "scan"
         /\ mmp' = [called |-> TRUE, returned |-> FALSE, found |-> FALSE, err |-> Nil]
         /\ UNCHANGED retErr
    ELSE /\ ScanReturns(FALSE, [kind |-> "NotFound", msg |-> << <<"lease not found">> >>, ref |-> ""])
         /\ UNCHANGED <<ls, ri>>

\* ListResources answered: an error returns (false, nil) for not-found and
\* (false, err) otherwise; a resource list starts the loop over it
LeaseAnswer ==
    IF Leased.kind = "notfound"
    THEN /\ ScanReturns(FALSE, Nil)
         /\ UNCHANGED <<ls, ri>>
    ELSE IF Leased.kind = "error"
    THEN /\ ScanReturns(FALSE, Leased.err)
         /\ UNCHANGED <<ls, ri>>
    ELSE /\ ls' = Leased.resources
         /\ ri' = 1
         /\ pc' = "scan"
         /\ mmp' = [called |-> TRUE, returned |-> FALSE, found |-> FALSE, err |-> Nil]
         /\ UNCHANGED retErr

\* the call of i.leases.ListResources and the handling of its answer
ListResources ==
    /\ pc = "list"
    /\ calls' = Append(calls, Call("leases.ListResources", imageKey(retImg.ID)))
    /\ LeaseAnswer
    /\ UNCHANGED <<refOrID, options, retImg, ml, mi, m>>
    /\ UNCHANGED <<storeVars, matchVars, ctx, harnessVars, histVars, pushVars>>

ReadFailed(blob) == blob.kind \in {"notfound", "openerr", "readerr"}
DecodeFailed(blob) == blob.kind \in {"badjson", "partial"}

\* one lease resource, with a failure to open the blob ending the scan with an error
ReadResourceAbort(r) ==
    IF r.Type # "content"
    THEN /\ ri' = ri + 1
         /\ UNCHANGED <<pc, ml, mi, calls, mmp, retErr>>
    ELSE /\ calls' = Append(calls, Call("content.ReaderAt", r.ID))
         /\ IF ReaderAt(r.ID).kind = "openerr"
            THEN /\ ScanReturns(FALSE, [kind |-> "Unknown", msg |-> << <<"content store error">> >>, ref |-> ""])
                 /\ UNCHANGED <<ri, ml, mi>>
            ELSE IF ReadFailed(ReaderAt(r.ID)) \/ DecodeFailed(ReaderAt(r.ID))
            THEN /\ ri' = ri + 1
                 /\ ml' = <<>>
                 /\ UNCHANGED <<pc, mi, mmp, retErr>>
            ELSE /\ ml' = ReaderAt(r.ID).Manifests
                 /\ mi' = 1
                 /\ pc' = "entries"
                 /\ UNCHANGED <<ri, mmp, retErr>>

\* one lease resource, with a blob that cannot be read or decoded ending the
\* loop over the resources
ReadResourceBreak(r) ==
    IF r.Type # "content"
    THEN /\ ri' = ri + 1
         /\ UNCHANGED <<pc, ml, mi, calls, mmp, retErr>>
    ELSE /\ calls' = Append(calls, Call("content.ReaderAt", r.ID))
         /\ IF ReadFailed(ReaderAt(r.ID))
            THEN /\ ri' = Len(ls) + 1
                 /\ UNCHANGED <<pc, ml, mi, mmp, retErr>>
            ELSE IF DecodeFailed(ReaderAt(r.ID))
            THEN /\ ri' = Len(ls) + 1
                 /\ ml' = <<>>
                 /\ UNCHANGED <<pc, mi, mmp, retErr>>
            ELSE /\ ml' = ReaderAt(r.ID).Manifests
                 /\ mi' = 1
                 /\ pc' = "entries"
                 /\ UNCHANGED <<ri, mmp, retErr>>

\* one pass of the loop over the lease resources, up to the loop over the
\* entries: a resource that is no content, cannot be read or cannot be decoded
\* is skipped
ReadResource(r) ==
    IF r.Type # "content"
    THEN /\ ri' = ri + 1
         /\ UNCHANGED <<pc, ml, mi, calls, mmp, retErr>>
    ELSE /\ calls' = Append(calls, Call("content.ReaderAt", r.ID))
         /\ IF ReadFailed(ReaderAt(r.ID))
            THEN /\ ri' = ri + 1
                 /\ UNCHANGED <<pc, ml, mi, mmp, retErr>>
            ELSE IF DecodeFailed(ReaderAt(r.ID))
            THEN /\ ri' = ri + 1
                 /\ ml' = <<>>
                 /\ UNCHANGED <<pc, mi, mmp, retErr>>
            ELSE /\ ml' = ReaderAt(r.ID).Manifests
                 /\ mi' = 1
                 /\ pc' = "entries"
                 /\ UNCHANGED <<ri, mmp, retErr>>

ScanResource ==
    /\ pc = "scan"
    /\ ri <= Len(ls)
    /\ ReadResource(ls[ri])
    /\ UNCHANGED <<refOrID, options, retImg, ls, m>>
    /\ UNCHANGED <<storeVars, matchVars, ctx, harnessVars, histVars, pushVars>>

\* m.Config.Digest after json.Unmarshal(data, &m): a "config" key sets it, a
\* document without one leaves the value of the last decode
Decoded(blob, old) == IF blob.hasConfig THEN blob.ConfigDigest ELSE old

\* one entry of a manifest list compared with the matcher with fallback
ReadEntryWithFallback(md) ==
    IF md.MediaType \notin RecognizedMediaTypes
    THEN /\ mi' = mi + 1
         /\ UNCHANGED <<pc, m, calls, mmp, retErr>>
    ELSE IF ~Match(OnlyPlatformWithFallback(options.Platform), md.Platform)
    THEN /\ mi' = mi + 1
         /\ UNCHANGED <<pc, m, calls, mmp, retErr>>
    ELSE /\ calls' = Append(calls, Call("content.ReaderAt", md.Digest))
         /\ IF ReadFailed(ReaderAt(md.Digest))
            THEN /\ mi' = mi + 1
                 /\ UNCHANGED <<pc, m, mmp, retErr>>
            ELSE IF DecodeFailed(ReaderAt(md.Digest))
            THEN /\ mi' = mi + 1
                 /\ m' = IF ReaderAt(md.Digest).kind = "partial"
                         THEN Decoded(ReaderAt(md.Digest), m) ELSE m
                 /\ UNCHANGED <<pc, mmp, retErr>>
            ELSE /\ m' = Decoded(ReaderAt(md.Digest), m)
                 /\ IF Decoded(ReaderAt(md.Digest), m) = retImg.ID
                    THEN /\ ScanReturns(TRUE, Nil)
                         /\ UNCHANGED mi
                    ELSE /\ mi' = mi + 1
                         /\ UNCHANGED <<pc, mmp, retErr>>

\* one entry of a manifest list read whatever its media type
ReadEntryAnyMediaType(md) ==
    IF ~OnlyMatch(options.Platform, md.Platform)
    THEN /\ mi' = mi + 1
         /\ UNCHANGED <<pc, m, calls, mmp, retErr>>
    ELSE /\ calls' = Append(calls, Call("content.ReaderAt", md.Digest))
         /\ IF ReadFailed(ReaderAt(md.Digest))
            THEN /\ mi' = mi + 1
                 /\ UNCHANGED <<pc, m, mmp, retErr>>
            ELSE IF DecodeFailed(ReaderAt(md.Digest))
            THEN /\ mi' = mi + 1
                 /\ m' = IF ReaderAt(md.Digest).kind = "partial"
                         THEN Decoded(ReaderAt(md.Digest), m) ELSE m
                 /\ UNCHANGED <<pc, mmp, retErr>>
            ELSE /\ m' = Decoded(ReaderAt(md.Digest), m)
                 /\ IF Decoded(ReaderAt(md.Digest), m) = retImg.ID
                    THEN /\ ScanReturns(TRUE, Nil)
                         /\ UNCHANGED mi
                    ELSE /\ mi' = mi + 1
                         /\ UNCHANGED <<pc, mmp, retErr>>

\* one pass of the loop over the entries of a manifest list: an entry of
\* another media type or platform is skipped, as is one whose manifest cannot
\* be read or decoded; a manifest with the image's config digest is the match
ReadEntry(md) ==
    IF md.MediaType \notin RecognizedMediaTypes
    THEN /\ mi' = mi + 1
         /\ UNCHANGED <<pc, m, calls, mmp, retErr>>
    ELSE IF ~OnlyMatch(options.Platform, md.Platform)
    THEN /\ mi' = mi + 1
         /\ UNCHANGED <<pc, m, calls, mmp, retErr>>
    ELSE /\ calls' = Append(calls, Call("content.ReaderAt", md.Digest))
         /\ IF ReadFailed(ReaderAt(md.Digest))
            THEN /\ mi' = mi + 1
                 /\ UNCHANGED <<pc, m, mmp, retErr>>
            ELSE IF DecodeFailed(ReaderAt(md.Digest))
            THEN /\ mi' = mi + 1
                 /\ m' = IF ReaderAt(md.Digest).kind = "partial"
                         THEN Decoded(ReaderAt(md.Digest), m) ELSE m
                 /\ UNCHANGED <<pc, mmp, retErr>>
            ELSE /\ m' = Decoded(ReaderAt(md.Digest), m)
                 /\ IF Decoded(ReaderAt(md.Digest), m) = retImg.ID
                    THEN /\ ScanReturns(TRUE, Nil)
                         /\ UNCHANGED mi
                    ELSE /\ mi' = mi + 1
                         /\ UNCHANGED <<pc, mmp, retErr>>

ScanEntry ==
    /\ pc = "entries"
    /\ mi <= Len(ml)
    /\ ReadEntry(ml[mi])
    /\ UNCHANGED <<refOrID, options, retImg, ls, ri, ml>>
    /\ UNCHANGED <<storeVars, matchVars, ctx, harnessVars, histVars, pushVars>>

\* the loop over the entries ends: on to the next lease resource
EntriesEnd ==
    /\ pc = "entries"
    /\ mi > Len(ml)
    /\ pc' = "scan"
    /\ ri' = ri + 1
    /\ UNCHANGED <<refOrID, options, retImg, retErr, mmp, ls, ml, mi, m, calls>>
    /\ UNCHANGED <<storeVars, matchVars, ctx, harnessVars, histVars, pushVars>>

\* the loop over the lease resources ends: return false, nil
ScanEnd ==
    /\ pc = "scan"
    /\ ri > Len(ls)
    /\ ScanReturns(FALSE, Nil)
    /\ UNCHANGED <<refOrID, options, retImg, ls, ri, ml, mi, m, calls>>
    /\ UNCHANGED <<storeVars, matchVars, ctx, harnessVars, histVars, pushVars>>

NoOptions == [Platform |-> Nil]

\* the call returns to its caller; its locals are gone
ReturnCall ==
    /\ pc = "done"
    /\ pc' = "idle"
    /\ refOrID' = ""
    /\ options' = NoOptions
    /\ retImg' = Nil
    /\ retErr' = Nil
    /\ mmp' = NoScan
    /\ ls' = <<>>
    /\ ri' = 0
    /\ ml' = <<>>
    /\ mi' = 0
    /\ m' = ""
    /\ calls' = <<>>
    /\ ctx' = LiveCtx

\* the call has returned, and nothing else happens
Return ==
    /\ ReturnCall
    /\ UNCHANGED <<storeVars, matchVars, harnessVars, histVars, pushVars>>

\* the caller cancels the context of a call that is under way; the stores'
\* calls made with it from then on either fail with its error or go on as
\* before
CancelCtx ==
    /\ pc \in {"list", "scan", "entries"}
    /\ ~ctx.done
    /\ \E o \in BOOLEAN :
         ctx' = [done |-> TRUE, obeyed |-> o, at |-> Len(calls),
                 inScan |-> pc \in {"scan", "entries"}]
    /\ UNCHANGED <<storeVars, callVars, matchVars, harnessVars, histVars, pushVars>>

(***************************************************************************)
(* Initial states.                                                         *)
(***************************************************************************)
IdleCall ==
    /\ pc = "idle"
    /\ refOrID = ""
    /\ options = NoOptions
    /\ retImg = Nil
    /\ retErr = Nil
    /\ mmp = NoScan
    /\ ls = <<>>
    /\ ri = 0
    /\ ml = <<>>
    /\ mi = 0
    /\ m = ""
    /\ calls = <<>>
    /\ ctx = LiveCtx

\* a daemon of the test harness as NewDaemon leaves it
EnvIdle ==
    /\ extraEnv = <<>>
    /\ envLatest = [n \in EnvNames |-> NoValue]

\* an empty log and a function of ScanLogsMatchCount(f, 1) not yet called
LogsIdle ==
    /\ logFile = <<>>
    /\ matcher = [count |-> 1, matched |-> 0]
    /\ scanned = NoScanLogs

DaemonIdle ==
    /\ proc = "none"
    /\ exitErr = Nil
    /\ cmd = "nil"
    /\ Wait = NilChan
    /\ hpc = "idle"
    /\ attempt = 0
    /\ signals = <<>>
    /\ hret = NoReturn
    /\ timedOut = FALSE
    /\ answered = FALSE

HarnessIdle == EnvIdle /\ LogsIdle /\ DaemonIdle

\* no PushImage call was made
PushIdle ==
    /\ ppc = "idle"
    /\ pushArgs = NoPushArgs
    /\ progressChan = NoProgressChan
    /\ writer = "none"
    /\ writesDone = FALSE
    /\ pushErr = Nil
    /\ pret = NoReturn
    /\ pushLog = <<>>

\* no earlier call to compare with, and no push
NoMore == prev = NoPrev /\ PushIdle

NoMatcher ==
    /\ mDesired = Plat("linux", "amd64", "")
    /\ mCandidate = Plat("linux", "amd64", "")
    /\ mResult = [done |-> FALSE, only |-> FALSE, fallback |-> FALSE]

\* what the first manifest list digest may hold
ListBlobs ==
    { ErrBlob(k) : k \in {"notfound", "openerr", "readerr", "badjson", "partial"} }
    \cup { ListBlob(es) : es \in SeqsUpTo(Entries, MaxEntries) }

\* what the second manifest list digest may hold
OtherBlobs ==
    { ErrBlob("notfound"), ErrBlob("badjson"), ListBlob(<<>>),
      ListBlob(<< Entry(MediaTypeImageManifest, "mf1", Plat("linux", "arm", "v7")) >>) }

\* what the first manifest digest may hold
ManifestBlobs ==
    { ErrBlob(k) : k \in {"notfound", "readerr", "badjson"} }
    \cup { ManifestBlob(d) : d \in ConfigDigests }
    \cup { PartialManifest("id1"), ListBlob(<<>>) }

\* what the second manifest digest may hold
OtherManifestBlobs == { ManifestBlob("id1"), ListBlob(<<>>) }

ContentOf(l1, l2, m1, m2) ==
    [d \in Digests |->
        CASE d = "ml1" -> l1
          [] d = "ml2" -> l2
          [] d = "mf1" -> m1
          [] OTHER -> m2]

\* the lease resource lists: no resource twice
ResourceLists == { rs \in SeqsUpTo(Resources, MaxRes) : IsInjective(rs) }

\* a content store with one manifest list of one entry for linux/arm/v7
SimpleContent(cfg) ==
    [d \in Digests |->
        CASE d = "ml1" -> ListBlob(<< [MediaType |-> MediaTypeImageManifest, Digest |-> "mf1",
                                       Platform |-> Plat("linux", "arm", "v7")] >>)
          [] d = "mf1" -> ManifestBlob(cfg)
          [] OTHER -> ErrBlob("notfound")]

\* any reference store, search index and image store over a simple content store
InitLookup ==
    /\ referenceStore \in [NamedRefs -> ImageIDs \cup {NoID}]
    /\ searchIndex \in [NamedRefs -> ImageIDs \cup {NoID}]
    /\ imageStore \in { st \in [ImageIDs -> {Nil} \cup { Image(id, p) : id \in ImageIDs, p \in ImgPlatforms }] :
                            \A id \in ImageIDs : st[id] = Nil \/ st[id].ID = id }
    /\ leases \in {LeasesNotFound, LeasesError, LeasesOK(<<Resource("ml1", "content")>>)}
    /\ content \in { SimpleContent(cfg) : cfg \in ConfigDigests }

\* one linux/amd64 image, found by its digest, over any lease set and content store
InitScan ==
    /\ referenceStore = [s \in NamedRefs |-> NoID]
    /\ searchIndex = [s \in NamedRefs |-> NoID]
    /\ imageStore = [id \in ImageIDs |-> Image(id, Plat("linux", "amd64", ""))]
    /\ leases \in { LeasesOK(rs) : rs \in ResourceLists }
    /\ content \in { ContentOf(l1, l2, m1, m2) :
                        l1 \in ListBlobs, l2 \in OtherBlobs,
                        m1 \in ManifestBlobs, m2 \in OtherManifestBlobs }

Init ==
    /\ InitLookup \/ InitScan
    /\ IdleCall
    /\ NoMatcher
    /\ HarnessIdle
    /\ NoMore

Next ==
    \/ \E s \in RefStrings, p \in ReqPlatforms \cup {Nil} : GetImage(s, [Platform |-> p])
    \/ ListResources
    \/ ScanResource
    \/ ScanEntry
    \/ EntriesEnd
    \/ ScanEnd
    \/ Return

Spec == Init /\ [][Next]_vars

\* the call returns to a caller that keeps what it got, and before the
\* caller's next call the resources held by the image's lease change
LeaseChanges ==
    /\ ReturnCall
    /\ prev' = [ref |-> refOrID, options |-> options, err |-> retErr, img |-> retImg]
    /\ \E rs \in ResourceLists : leases' = LeasesOK(rs) /\ LeasesOK(rs) # leases
    /\ UNCHANGED <<referenceStore, searchIndex, imageStore, content>>
    /\ UNCHANGED <<matchVars, harnessVars, pushVars>>

\* one image of each ID, for linux/amd64 or linux/arm, under a name or not,
\* over a simple content store and any lease
InitChange ==
    /\ referenceStore \in [NamedRefs -> {"id1", NoID}]
    /\ searchIndex = [s \in NamedRefs |-> NoID]
    /\ imageStore \in { [id \in ImageIDs |-> Image(id, p)] :
                            p \in {Plat("linux", "amd64", ""), Plat("linux", "arm", "")} }
    /\ leases \in {LeasesNotFound} \cup { LeasesOK(rs) : rs \in ResourceLists }
    /\ content \in { SimpleContent(cfg) : cfg \in ConfigDigests }
    /\ IdleCall
    /\ NoMatcher
    /\ HarnessIdle
    /\ NoMore

\* GetImage calls with the lease changing between them
NextChange ==
    \/ \E s \in RefStrings, p \in ReqPlatforms \cup {Nil} : GetImage(s, [Platform |-> p])
    \/ ListResources
    \/ ScanResource
    \/ ScanEntry
    \/ EntriesEnd
    \/ ScanEnd
    \/ Return
    \/ LeaseChanges

SpecChange == InitChange /\ [][NextChange]_vars

\* GetImage calls whose context the caller may cancel
NextCancel == Next \/ CancelCtx

SpecCancel == Init /\ [][NextCancel]_vars

(***************************************************************************)
(* PushImage(ctx, ref, platform, ...): the platform check through GetImage, *)
(* then distribution.Push with a goroutine writing its progress.            *)
(***************************************************************************)
\* progress.Progress values the channel buffers before a send blocks
\* (make(chan progress.Progress, 100))
MaxProgress == 2

ErrPush == [kind |-> "Unavailable", msg |-> << <<"push failed">> >>, ref |-> ""]

\* what distribution.Push may return
PushErrors == {Nil, ErrPush, ErrCanceled}

Event(ev, err) == [ev |-> ev, err |-> err]

\* go func() { WriteDistributionProgress(...); close(writesDone) }() and the
\* call of distribution.Push
StartPush(log) ==
    /\ progressChan' = NoProgressChan
    /\ writesDone' = FALSE
    /\ writer' = "running"
    /\ ppc' = "pushing"
    /\ pushLog' = log \o <<Event("go writer", Nil), Event("distribution.Push", Nil)>>

\* PushImage is called: with a platform the check by GetImage comes first
PushImage(ref, platform) ==
    /\ ppc = "idle"
    /\ pc = "idle"
    /\ pushArgs' = [ref |-> ref, platform |-> platform]
    /\ pret' = NoReturn
    /\ pushErr' = Nil
    /\ IF platform # Nil
       THEN /\ ppc' = "check"
            /\ progressChan' = NoProgressChan
            /\ writesDone' = FALSE
            /\ writer' = "none"
            /\ pushLog' = <<>>
       ELSE StartPush(<<>>)
    /\ UNCHANGED <<storeVars, callVars, ctx, matchVars, harnessVars, histVars>>

\* i.GetImage(ctx, ref.String(), backend.GetImageOpts{Platform: platform})
PushCheck ==
    /\ ppc = "check"
    /\ GetImage(pushArgs.ref, [Platform |-> pushArgs.platform])

\* PushImage with the push started whatever GetImage returned
PushCheckedIgnoresError ==
    /\ ppc = "check"
    /\ ReturnCall
    /\ StartPush(<<Event("GetImage", retErr)>>)
    /\ UNCHANGED <<pret, pushArgs, pushErr>>
    /\ UNCHANGED <<storeVars, matchVars, harnessVars, histVars>>

\* GetImage has returned: its error ends PushImage, else the push starts
PushChecked ==
    /\ ppc = "check"
    /\ ReturnCall
    /\ IF retErr # Nil
       THEN /\ pret' = Returns("push", "check", retErr)
            /\ ppc' = "idle"
            /\ pushLog' = <<Event("GetImage", retErr), Event("return", retErr)>>
            /\ UNCHANGED <<progressChan, writer, writesDone>>
       ELSE /\ StartPush(<<Event("GetImage", retErr)>>)
            /\ UNCHANGED pret
    /\ UNCHANGED <<pushArgs, pushErr>>
    /\ UNCHANGED <<storeVars, matchVars, harnessVars, histVars>>

\* distribution.Push sends a progress value: room in the channel is needed
PushProgress ==
    /\ ppc = "pushing"
    /\ progressChan.q < MaxProgress
    /\ progressChan' = [progressChan EXCEPT !.q = @ + 1]
    /\ UNCHANGED <<ppc, pushArgs, writer, writesDone, pushErr, pret, pushLog>>
    /\ UNCHANGED <<storeVars, callVars, ctx, matchVars, harnessVars, histVars>>

\* err := distribution.Push(ctx, ref, imagePushConfig) returns
PushReturns ==
    /\ ppc = "pushing"
    /\ \E err \in PushErrors :
          /\ pushErr' = err
          /\ pushLog' = Append(pushLog, Event("Push returned", err))
    /\ ppc' = "close"
    /\ UNCHANGED <<pushArgs, progressChan, writer, writesDone, pret>>
    /\ UNCHANGED <<storeVars, callVars, ctx, matchVars, harnessVars, histVars>>

\* PushImage going on to wait for the writer with the channel left open
CloseProgressNever ==
    /\ ppc = "close"
    /\ ppc' = "waiting"
    /\ UNCHANGED <<pushArgs, progressChan, writer, writesDone, pushErr, pret, pushLog>>
    /\ UNCHANGED <<storeVars, callVars, ctx, matchVars, harnessVars, histVars>>

\* close(progressChan)
CloseProgress ==
    /\ ppc = "close"
    /\ progressChan' = [progressChan EXCEPT !.closes = @ + 1]
    /\ pushLog' = Append(pushLog, Event("close(progressChan)", Nil))
    /\ ppc' = "waiting"
    /\ UNCHANGED <<pushArgs, writer, writesDone, pushErr, pret>>
    /\ UNCHANGED <<storeVars, callVars, ctx, matchVars, harnessVars, histVars>>

\* the writer takes one progress value off the channel and writes it
WriterDrains ==
    /\ writer = "running"
    /\ progressChan.q > 0
    /\ progressChan' = [progressChan EXCEPT !.q = @ - 1]
    /\ UNCHANGED <<ppc, pushArgs, writer, writesDone, pushErr, pret, pushLog>>
    /\ UNCHANGED <<storeVars, callVars, ctx, matchVars, harnessVars, histVars>>

\* the writer finds the channel closed and empty: WriteDistributionProgress
\* returns and the goroutine does close(writesDone)
WriterEnds ==
    /\ writer = "running"
    /\ progressChan.q = 0
    /\ progressChan.closes > 0
    /\ writer' = "done"
    /\ writesDone' = TRUE
    /\ pushLog' = Append(pushLog, Event("close(writesDone)", Nil))
    /\ UNCHANGED <<ppc, pushArgs, progressChan, pushErr, pret>>
    /\ UNCHANGED <<storeVars, callVars, ctx, matchVars, harnessVars, histVars>>

\* <-writesDone, then return err
PushImageReturns ==
    /\ ppc = "waiting"
    /\ writesDone
    /\ pret' = Returns("push", "pushed", pushErr)
    /\ pushLog' = Append(pushLog, Event("return", pushErr))
    /\ ppc' = "idle"
    /\ UNCHANGED <<pushArgs, progressChan, writer, writesDone, pushErr>>
    /\ UNCHANGED <<storeVars, callVars, ctx, matchVars, harnessVars, histVars>>

\* an image under the name pushed, for linux/amd64 or linux/arm, or none
InitPush ==
    /\ referenceStore \in [NamedRefs -> {"id1", NoID}]
    /\ searchIndex = [s \in NamedRefs |-> NoID]
    /\ imageStore \in { [id \in ImageIDs |-> Image(id, p)] :
                            p \in {Plat("linux", "amd64", ""), Plat("linux", "arm", "")} }
    /\ leases \in {LeasesNotFound, LeasesError,
                   LeasesOK(<<Resource("ml1", "content")>>)}
    /\ content \in { SimpleContent(cfg) : cfg \in ConfigDigests }
    /\ IdleCall
    /\ NoMatcher
    /\ HarnessIdle
    /\ NoMore

NextPush ==
    \/ \E ref \in NamedRefs, p \in ReqPlatforms \cup {Nil} : PushImage(ref, p)
    \/ PushCheck
    \/ ListResources
    \/ ScanResource
    \/ ScanEntry
    \/ EntriesEnd
    \/ ScanEnd
    \/ PushChecked
    \/ PushProgress
    \/ PushReturns
    \/ CloseProgress
    \/ WriterDrains
    \/ WriterEnds
    \/ PushImageReturns

SpecPush == InitPush /\ [][NextPush]_vars

\* the Go scheduler runs the writer goroutine and PushImage itself whenever
\* they can take a step
SpecPushLive ==
    /\ InitPush
    /\ [][NextPush]_vars
    /\ WF_vars(CloseProgress)
    /\ WF_vars(WriterDrains)
    /\ WF_vars(WriterEnds)
    /\ WF_vars(PushImageReturns)

(***************************************************************************)
(* The matcher alone, over all pairs of platforms.                           *)
(***************************************************************************)
InitMatch ==
    /\ referenceStore = [s \in NamedRefs |-> NoID]
    /\ searchIndex = [s \in NamedRefs |-> NoID]
    /\ imageStore = [id \in ImageIDs |-> Nil]
    /\ leases = LeasesNotFound
    /\ content = [d \in Digests |-> ErrBlob("notfound")]
    /\ IdleCall
    /\ mDesired \in Platforms
    /\ mCandidate \in Platforms
    /\ mResult = [done |-> FALSE, only |-> FALSE, fallback |-> FALSE]
    /\ HarnessIdle
    /\ NoMore

\* OnlyPlatformWithFallback(mDesired).Match(mCandidate), beside the baseline
ApplyMatch ==
    /\ ~mResult.done
    /\ mResult' = [done |-> TRUE,
                   only |-> OnlyMatch(mDesired, mCandidate),
                   fallback |-> Match(OnlyPlatformWithFallback(mDesired), mCandidate)]
    /\ UNCHANGED <<mDesired, mCandidate, storeVars, callVars, ctx, harnessVars, histVars, pushVars>>

NextMatch == ApplyMatch

SpecMatch == InitMatch /\ [][NextMatch]_vars

(***************************************************************************)
(* The test daemon: StartWithLogFile and StopWithError, with the daemon     *)
(* process and the goroutine that waits for it.                             *)
(***************************************************************************)
\* no image, no GetImage call and no matcher evaluation
ResolverIdle ==
    /\ referenceStore = [s \in NamedRefs |-> NoID]
    /\ searchIndex = [s \in NamedRefs |-> NoID]
    /\ imageStore = [id \in ImageIDs |-> Nil]
    /\ leases = LeasesNotFound
    /\ content = [d \in Digests |-> ErrBlob("notfound")]
    /\ IdleCall
    /\ NoMatcher
    /\ NoMore

\* what cmd.Wait returns: nil for exit status 0, else an *exec.ExitError
ExitErrors == { Nil, [kind |-> "ExitError"] }

ErrDaemonNotStarted == [kind |-> "errDaemonNotStarted"]
ErrProcessDone == [kind |-> "os.ErrProcessDone"]
ErrDeadlineExceeded == [kind |-> "context.DeadlineExceeded"]
ErrStart == [kind |-> "start failed"]

\* errors.Wrapf(err, ...) of github.com/pkg/errors: nil for a nil err
Wrapf(err) == IF err = Nil THEN Nil ELSE [kind |-> "wrapped", cause |-> err]

\* os.Process.Signal and os.Process.Kill fail with os.ErrProcessDone once the
\* process has been waited for
ProcessDone == proc \in {"reaped", "gone"}

\* the daemon process starts to answer /_ping
ProcServes ==
    /\ proc = "running"
    /\ proc' = "serving"
    /\ UNCHANGED <<exitErr, cmd, Wait, hpc, attempt, signals, hret, timedOut, answered>>
    /\ UNCHANGED <<storeVars, callVars, ctx, matchVars, histVars, pushVars, envVars, logVars>>

\* the daemon process exits, of itself or on a signal
ProcExits ==
    /\ proc \in {"running", "serving"}
    /\ proc' = "exited"
    /\ exitErr' \in ExitErrors
    /\ UNCHANGED <<cmd, Wait, hpc, attempt, signals, hret, timedOut, answered>>
    /\ UNCHANGED <<storeVars, callVars, ctx, matchVars, histVars, pushVars, envVars, logVars>>

\* the goroutine of StartWithLogFile: cmd.Wait returns
CmdWaitReturns ==
    /\ proc = "exited"
    /\ proc' = "reaped"
    /\ UNCHANGED <<exitErr, cmd, Wait, hpc, attempt, signals, hret, timedOut, answered>>
    /\ UNCHANGED <<storeVars, callVars, ctx, matchVars, histVars, pushVars, envVars, logVars>>

\* the goroutine of StartWithLogFile: wait <- ret; close(wait)
WaitSend ==
    /\ proc = "reaped"
    /\ proc' = "gone"
    /\ Wait' = [Wait EXCEPT !.q = <<exitErr>>, !.closed = TRUE]
    /\ UNCHANGED <<exitErr, cmd, hpc, attempt, signals, hret, timedOut, answered>>
    /\ UNCHANGED <<storeVars, callVars, ctx, matchVars, histVars, pushVars, envVars, logVars>>

\* StartWithLogFile up to its readiness loop: an error before or in cmd.Start
\* returns it; else the process runs and the goroutine waits for it, and an
\* error of getClientConfig or http.NewRequest returns
StartWithLogFile ==
    /\ hpc = "idle"
    /\ proc \in {"none", "gone"}
    /\ \E o \in {"nostart", "noconfig", "ok"} :
         IF o = "nostart"
         THEN /\ hret' = Returns("start", "nostart", ErrStart)
              /\ UNCHANGED <<proc, exitErr, cmd, Wait, hpc, timedOut, answered>>
         ELSE /\ proc' = "running"
              /\ exitErr' = Nil
              /\ cmd' = "set"
              /\ Wait' = MakeChan
              /\ timedOut' = FALSE
              /\ answered' = FALSE
              /\ IF o = "noconfig"
                 THEN hret' = Returns("start", "noconfig", ErrStart) /\ UNCHANGED hpc
                 ELSE hret' = NoReturn /\ hpc' = "select"
    /\ UNCHANGED <<attempt, signals>>
    /\ UNCHANGED <<storeVars, callVars, ctx, matchVars, histVars, pushVars, envVars, logVars>>

\* the 60 second context of the readiness loop expires
DeadlinePasses ==
    /\ hpc \in {"select", "ping"}
    /\ ~timedOut
    /\ timedOut' = TRUE
    /\ UNCHANGED <<proc, exitErr, cmd, Wait, hpc, attempt, signals, hret, answered>>
    /\ UNCHANGED <<storeVars, callVars, ctx, matchVars, histVars, pushVars, envVars, logVars>>

\* the select of the readiness loop, case <-ctx.Done()
StartDeadline ==
    /\ hpc = "select"
    /\ timedOut
    /\ hret' = Returns("start", "deadline", Wrapf(ErrDeadlineExceeded))
    /\ hpc' = "idle"
    /\ UNCHANGED <<proc, exitErr, cmd, Wait, attempt, signals, timedOut, answered>>
    /\ UNCHANGED <<storeVars, callVars, ctx, matchVars, histVars, pushVars, envVars, logVars>>

\* the select of the readiness loop, case err := <-d.Wait
StartDaemonExited ==
    /\ hpc = "select"
    /\ CanReceive(Wait)
    /\ hret' = Returns("start", "exited", Wrapf(Received(Wait)))
    /\ Wait' = AfterReceive(Wait)
    /\ hpc' = "idle"
    /\ UNCHANGED <<proc, exitErr, cmd, attempt, signals, timedOut, answered>>
    /\ UNCHANGED <<storeVars, callVars, ctx, matchVars, histVars, pushVars, envVars, logVars>>

\* the select of the readiness loop, default: a /_ping request is sent
StartPing ==
    /\ hpc = "select"
    /\ ~timedOut
    /\ ~CanReceive(Wait)
    /\ hpc' = "ping"
    /\ UNCHANGED <<proc, exitErr, cmd, Wait, attempt, signals, hret, timedOut, answered>>
    /\ UNCHANGED <<storeVars, callVars, ctx, matchVars, histVars, pushVars, envVars, logVars>>

\* client.Do returns: an error sends the loop round again; an answer ends it
\* with the result of queryRootDir
PingReturns ==
    /\ hpc = "ping"
    /\ \/ /\ hpc' = "select"
          /\ UNCHANGED <<hret, answered>>
       \/ /\ proc = "serving"
          /\ answered' = TRUE
          /\ hpc' = "idle"
          /\ \E rootErr \in {Nil, ErrStart} :
                hret' = Returns("start", "answered", Wrapf(rootErr))
    /\ UNCHANGED <<proc, exitErr, cmd, Wait, attempt, signals, timedOut>>
    /\ UNCHANGED <<storeVars, callVars, ctx, matchVars, histVars, pushVars, envVars, logVars>>

\* the tick of the second loop with the kill sent after the third interrupt
StopTickKillsEarly ==
    /\ hpc = "out2"
    /\ attempt' = attempt + 1
    /\ IF attempt + 1 > 3
       THEN IF ProcessDone
            THEN /\ hret' = Returns("stop", "killfailed", ErrProcessDone)
                 /\ UNCHANGED signals
            ELSE /\ signals' = Append(signals, "kill")
                 /\ hret' = Returns("stop", "killed", Nil)
       ELSE IF ProcessDone
            THEN /\ hret' = Returns("stop", "signalfailed", Wrapf(ErrProcessDone))
                 /\ UNCHANGED signals
            ELSE /\ signals' = Append(signals, "interrupt")
                 /\ UNCHANGED hret
    /\ hpc' = IF hret' # hret THEN "idle" ELSE "out2"
    /\ cmd' = IF hret' # hret THEN "nil" ELSE cmd
    /\ UNCHANGED <<proc, exitErr, Wait, timedOut, answered>>
    /\ UNCHANGED <<storeVars, callVars, ctx, matchVars, histVars, pushVars, envVars, logVars>>

\* StopWithError up to its first loop: errDaemonNotStarted without a started
\* daemon or for a process already waited for, else the first interrupt
StopWithError ==
    /\ hpc = "idle"
    /\ signals' = IF cmd = "nil" \/ ~Wait.made \/ ProcessDone THEN <<>> ELSE <<"interrupt">>
    /\ IF cmd = "nil" \/ ~Wait.made
       THEN /\ hret' = Returns("stop", "notstarted", ErrDaemonNotStarted)
            /\ UNCHANGED <<cmd, hpc, attempt>>
       ELSE IF ProcessDone
       THEN /\ hret' = Returns("stop", "notstarted", ErrDaemonNotStarted)
            /\ cmd' = "nil"
            /\ UNCHANGED <<hpc, attempt>>
       ELSE /\ hret' = NoReturn
            /\ attempt' = 1
            /\ hpc' = "out1"
            /\ UNCHANGED cmd
    /\ UNCHANGED <<proc, exitErr, Wait, timedOut, answered>>
    /\ UNCHANGED <<storeVars, callVars, ctx, matchVars, histVars, pushVars, envVars, logVars>>

\* either loop, case err := <-d.Wait: the exit is returned
StopExitObserved ==
    /\ hpc \in {"out1", "out2"}
    /\ CanReceive(Wait)
    /\ hret' = Returns("stop", "exit", Received(Wait))
    /\ Wait' = AfterReceive(Wait)
    /\ hpc' = "idle"
    /\ cmd' = "nil"
    /\ UNCHANGED <<proc, exitErr, attempt, signals, timedOut, answered>>
    /\ UNCHANGED <<storeVars, callVars, ctx, matchVars, histVars, pushVars, envVars, logVars>>

\* the first loop, case <-time.After(20 * time.Second)
StopTimeout ==
    /\ hpc = "out1"
    /\ hpc' = "out2"
    /\ UNCHANGED <<proc, exitErr, cmd, Wait, attempt, signals, hret, timedOut, answered>>
    /\ UNCHANGED <<storeVars, callVars, ctx, matchVars, histVars, pushVars, envVars, logVars>>

\* the second loop, case <-tick: one more interrupt, or after the fifth the
\* kill and the return
StopTick ==
    /\ hpc = "out2"
    /\ attempt' = attempt + 1
    /\ IF attempt + 1 > 5
       THEN IF ProcessDone
            THEN /\ hret' = Returns("stop", "killfailed", ErrProcessDone)
                 /\ UNCHANGED signals
            ELSE /\ signals' = Append(signals, "kill")
                 /\ hret' = Returns("stop", "killed", Nil)
       ELSE IF ProcessDone
            THEN /\ hret' = Returns("stop", "signalfailed", Wrapf(ErrProcessDone))
                 /\ UNCHANGED signals
            ELSE /\ signals' = Append(signals, "interrupt")
                 /\ UNCHANGED hret
    /\ hpc' = IF hret' # hret THEN "idle" ELSE "out2"
    /\ cmd' = IF hret' # hret THEN "nil" ELSE cmd
    /\ UNCHANGED <<proc, exitErr, Wait, timedOut, answered>>
    /\ UNCHANGED <<storeVars, callVars, ctx, matchVars, histVars, pushVars, envVars, logVars>>

InitDaemon == ResolverIdle /\ HarnessIdle

NextDaemon ==
    \/ StartWithLogFile
    \/ DeadlinePasses
    \/ StartDeadline
    \/ StartDaemonExited
    \/ StartPing
    \/ PingReturns
    \/ ProcServes
    \/ ProcExits
    \/ CmdWaitReturns
    \/ WaitSend
    \/ StopWithError
    \/ StopExitObserved
    \/ StopTimeout
    \/ StopTick

SpecDaemon == InitDaemon /\ [][NextDaemon]_vars

(***************************************************************************)
(* The test daemon: ScanLogs with a function of ScanLogsMatchCount.          *)
(***************************************************************************)
MaxLog == 3
MaxScans == 3
MaxCount == 2

\* the function f given to ScanLogsMatchCount
f(line) == line = "hit"

\* the function ScanLogsMatchCount returns, applied to a line: matched goes up
\* if f holds of the line, and the result is matched == count
MatchCount(mt, line) ==
    LET n == IF f(line) THEN mt.matched + 1 ELSE mt.matched
    IN  [matcher |-> [mt EXCEPT !.matched = n], ok |-> n = mt.count]

\* the loop of ScanLogs over the lines from the first on, up to the first
\* line match returns true for
RECURSIVE ScanLines(_, _, _)
ScanLines(lines, k, mt) ==
    IF k > Len(lines) THEN [ok |-> FALSE, line |-> "", matcher |-> mt]
    ELSE LET r == MatchCount(mt, lines[k])
         IN  IF r.ok THEN [ok |-> TRUE, line |-> lines[k], matcher |-> r.matcher]
             ELSE ScanLines(lines, k + 1, r.matcher)

\* ScanLogs(ctx, match), as PollCheckLogs calls it at every poll, with a
\* context that is not cancelled: the whole file as it is now is read
ScanLogs ==
    /\ scanned.calls < MaxScans
    /\ LET r == ScanLines(logFile, 1, matcher)
       IN  /\ matcher' = r.matcher
           /\ scanned' = [calls |-> scanned.calls + 1, ok |-> r.ok, line |-> r.line]
    /\ UNCHANGED logFile
    /\ UNCHANGED <<storeVars, callVars, ctx, matchVars, histVars, pushVars, envVars, daemonVars>>

\* the daemon writes a line to its log
WriteLog ==
    /\ Len(logFile) < MaxLog
    /\ \E l \in LogLines : logFile' = Append(logFile, l)
    /\ UNCHANGED <<matcher, scanned>>
    /\ UNCHANGED <<storeVars, callVars, ctx, matchVars, histVars, pushVars, envVars, daemonVars>>

InitLogs ==
    /\ ResolverIdle
    /\ EnvIdle
    /\ DaemonIdle
    /\ logFile = <<>>
    /\ matcher \in { [count |-> c, matched |-> 0] : c \in 1..MaxCount }
    /\ scanned = NoScanLogs

NextLogs == ScanLogs \/ WriteLog

SpecLogs == InitLogs /\ [][NextLogs]_vars

(***************************************************************************)
(* The test daemon: SetEnvVar.                                               *)
(***************************************************************************)
MaxEnv == 4

\* strings.HasPrefix
HasPrefix(s, prefix) == Len(prefix) <= Len(s) /\ SubSeq(s, 1, Len(prefix)) = prefix

\* slices.IndexFunc with the test for the prefix: the index, from 0, of the
\* first element that starts with the prefix, or -1
IndexFunc(s, prefix) ==
    IF \E k \in 1..Len(s) : HasPrefix(s[k], prefix)
    THEN (CHOOSE k \in 1..Len(s) :
            HasPrefix(s[k], prefix) /\ \A j \in 1..(k - 1) : ~HasPrefix(s[j], prefix)) - 1
    ELSE -1

\* SetEnvVar(name, val): the entry found at an index above 0 is replaced, else
\* a new entry is appended
SetEnvVar(name, val) ==
    LET prefix == name \o <<"=">>
        idx == IndexFunc(extraEnv, prefix)
    IN  /\ IF idx > 0
           THEN extraEnv' = [extraEnv EXCEPT ![idx + 1] = prefix \o val]
           ELSE /\ Len(extraEnv) < MaxEnv
                /\ extraEnv' = Append(extraEnv, prefix \o val)
        /\ envLatest' = [envLatest EXCEPT ![name] = val]
        /\ UNCHANGED <<storeVars, callVars, ctx, matchVars, histVars, pushVars, logVars, daemonVars>>

\* a daemon made with no extra environment, or with one variable of another
\* name given to NewDaemon
InitEnv ==
    /\ ResolverIdle
    /\ LogsIdle
    /\ DaemonIdle
    /\ extraEnv \in { <<>>, << <<"X", "=", "0">> >> }
    /\ envLatest = [n \in EnvNames |-> NoValue]

NextEnv == \E name \in EnvNames, val \in EnvValues : SetEnvVar(name, val)

SpecEnv == InitEnv /\ [][NextEnv]_vars

(***************************************************************************)
(* Properties.                                                             *)
(***************************************************************************)
HasCall(op) == \E i \in 1..Len(calls) : calls[i].op = op
WasRead(d) == \E i \in 1..Len(calls) : calls[i].op = "content.ReaderAt" /\ calls[i].arg = d
NoScanCalls == ~HasCall("leases.ListResources") /\ ~HasCall("content.ReaderAt")
Returned == pc = "done"
\* the call had a platform option and its reference resolved to a record
ResolvedWithPlatform == pc # "idle" /\ options.Platform # Nil /\ retImg # Nil
MatcherAccepts == Match(OnlyPlatformWithFallback(options.Platform), ImgPlat(retImg))
InMessage(err, part) == \E i \in 1..Len(err.msg) : err.msg[i] = part

\* C1: a GetImage call with a requested platform whose record the matcher with
\* fallback rejects, and for which manifestMatchesPlatform returned no match
\* and no error, returns a NotFound error whose message holds both the
\* recorded and the requested platform string.
C1_MismatchIsNotFound ==
    (/\ Returned
     /\ ResolvedWithPlatform
     /\ ~MatcherAccepts
     /\ mmp.returned /\ ~mmp.found /\ mmp.err = Nil)
    => /\ retErr.kind = "NotFound"
       /\ InMessage(retErr, FormatAll(ImgPlat(retImg)))
       /\ InMessage(retErr, FormatAll(options.Platform))

C1_Witness ==
    /\ Returned
    /\ ResolvedWithPlatform
    /\ mmp.returned /\ ~mmp.found /\ mmp.err = Nil
    /\ leases.kind = "ok"
    /\ Len(ls) = 2
    /\ retErr.kind = "NotFound"
    /\ FormatAll(ImgPlat(retImg)) = <<"linux", "amd64">>
    /\ FormatAll(options.Platform) = <<"linux", "arm", "v7">>

\* C2: when the record's platform is rejected by the matcher and the scan finds
\* a match, GetImage returns the record of the image store with no error.
C2_CorroboratedIsReturned ==
    (Returned /\ ResolvedWithPlatform /\ ~MatcherAccepts /\ mmp.returned /\ mmp.found)
    => /\ retErr = Nil
       /\ retImg = imageStore[retImg.ID]

C2_Witness ==
    /\ Returned
    /\ ResolvedWithPlatform
    /\ ~MatcherAccepts
    /\ mmp.found
    /\ retErr = Nil
    /\ retImg = Image("id1", Plat("linux", "amd64", ""))

\* C3: a GetImage call with no platform option makes no call to the lease
\* registry or the content store, never enters the scan, and returns the
\* record as the image store holds it, whatever its platform fields are.
C3_NoPlatformNoScan ==
    options.Platform = Nil
    => /\ pc \in {"idle", "done"}
       /\ NoScanCalls
       /\ ~mmp.called
       /\ (Returned /\ retImg # Nil) => (retErr = Nil /\ retImg = imageStore[retImg.ID])

C3_Witness ==
    /\ Returned
    /\ options.Platform = Nil
    /\ retImg # Nil
    /\ retImg.OS = ""
    /\ retErr = Nil
    /\ calls # <<>>

\* C4: a GetImage call whose record's platform the matcher with fallback
\* accepts (as when it equals the requested platform, or is linux/arm with no
\* variant and linux/arm/v7 is requested) returns the record without a call to
\* the lease registry or the content store.
C4_AcceptedNoScan ==
    (/\ ResolvedWithPlatform
     /\ \/ MatcherAccepts
        \/ ImgPlat(retImg) = options.Platform
        \/ (ImgPlat(retImg) = Plat("linux", "arm", "") /\ options.Platform = Plat("linux", "arm", "v7")))
    => /\ Returned
       /\ retErr = Nil
       /\ retImg = imageStore[retImg.ID]
       /\ NoScanCalls
       /\ ~mmp.called

C4_Witness ==
    /\ Returned
    /\ ResolvedWithPlatform
    /\ ImgPlat(retImg) = Plat("linux", "arm", "")
    /\ options.Platform = Plat("linux", "arm", "v7")
    /\ retErr = Nil
    /\ NoScanCalls

\* C5: OnlyPlatformWithFallback(desired).Match(candidate) is false whenever the
\* two differ in OS or in architecture, whatever the variants.
C5_ArchMismatchNeverWaived ==
    (mResult.done /\ (mDesired.OS # mCandidate.OS \/ mDesired.Architecture # mCandidate.Architecture))
    => ~mResult.fallback

C5_Witness ==
    /\ mResult.done
    /\ mDesired = Plat("linux", "arm64", "")
    /\ mCandidate = Plat("linux", "arm", "")
    /\ ~mResult.fallback

\* C6: when the baseline matcher rejects a candidate that has no variant, the
\* matcher with fallback accepts it exactly when the normalized OS and
\* architecture of the two are equal; the desired variant plays no part.
C6_FallbackComparesOSArch ==
    (mResult.done /\ ~mResult.only /\ mCandidate.Variant = "")
    => /\ mResult.fallback = (/\ Normalize(mDesired).OS = Normalize(mCandidate).OS
                              /\ Normalize(mDesired).Architecture = Normalize(mCandidate).Architecture)
       /\ \A v \in Variants :
            ~OnlyMatch([mDesired EXCEPT !.Variant = v], mCandidate)
            => Match(OnlyPlatformWithFallback([mDesired EXCEPT !.Variant = v]), mCandidate)
               = mResult.fallback

C6_Witness ==
    /\ mResult.done
    /\ ~mResult.only
    /\ mCandidate.Variant = ""
    /\ mDesired.Variant = "v7"
    /\ mResult.fallback

\* C7: for a candidate that declares a variant the matcher with fallback gives
\* the baseline matcher's result: a baseline rejection stays a rejection, even
\* with equal OS and architecture.
C7_VariantCandidateNoFallback ==
    (mResult.done /\ mCandidate.Variant # "") => mResult.fallback = mResult.only

C7_Witness ==
    /\ mResult.done
    /\ mCandidate.Variant # ""
    /\ mDesired.OS = mCandidate.OS
    /\ mDesired.Architecture = mCandidate.Architecture
    /\ ~mResult.only
    /\ ~mResult.fallback

\* C8: when the lease registry answers not-found for the image's lease,
\* manifestMatchesPlatform returns found = false and a nil error and reads
\* nothing from the content store.
C8_LeaseNotFoundIsNoMatch ==
    (HasCall("leases.ListResources") /\ leases.kind = "notfound")
    => /\ mmp.returned
       /\ ~mmp.found
       /\ mmp.err = Nil
       /\ ~HasCall("content.ReaderAt")

C8_Witness ==
    /\ Returned
    /\ HasCall("leases.ListResources")
    /\ leases.kind = "notfound"
    /\ mmp.returned /\ ~mmp.found /\ mmp.err = Nil

\* C9: when lease enumeration fails with an error other than not-found,
\* manifestMatchesPlatform returns that error and GetImage returns the same
\* error, not the platform mismatch NotFound error.
C9_LeaseErrorPropagates ==
    (HasCall("leases.ListResources") /\ leases.kind = "error")
    => /\ mmp.returned
       /\ mmp.err = leases.err
       /\ Returned
       /\ retErr = leases.err
       /\ retErr.kind # "NotFound"
       /\ ~HasCall("content.ReaderAt")

C9_Witness ==
    /\ Returned
    /\ HasCall("leases.ListResources")
    /\ leases.kind = "error"
    /\ retErr = LeaseUnavailable

\* the entries of a manifest list whose manifest the scan is to read
Candidates(es) ==
    { i \in 1..Len(es) : /\ es[i].MediaType \in RecognizedMediaTypes
                          /\ OnlyMatch(options.Platform, es[i].Platform) }

\* C10: once lease enumeration has succeeded manifestMatchesPlatform returns a
\* nil error; a blob that cannot be opened, read or decoded is skipped alone:
\* a scan that ends without a match has read every content resource of the
\* lease and every candidate manifest of every manifest list it could decode.
C10_ContentErrorsAreSkipped ==
    (mmp.returned /\ leases.kind = "ok")
    => /\ mmp.err = Nil
       /\ ~mmp.found =>
            \A i \in 1..Len(ls) :
                ls[i].Type = "content"
                => /\ WasRead(ls[i].ID)
                   /\ content[ls[i].ID].kind = "json"
                      => \A j \in Candidates(content[ls[i].ID].Manifests) :
                            WasRead(content[ls[i].ID].Manifests[j].Digest)

C10_Witness ==
    /\ Returned
    /\ mmp.returned
    /\ leases.kind = "ok"
    /\ Len(ls) = 2
    /\ ls[1].Type = "content"
    /\ ls[2].Type = "content"
    /\ content[ls[1].ID].kind = "openerr"
    /\ WasRead(ls[1].ID)
    /\ WasRead(ls[2].ID)
    /\ content["mf1"].kind = "badjson"
    /\ WasRead("mf1")
    /\ mmp.err = Nil


\* an entry of a manifest list that names the requested platform and a
\* manifest whose config digest is the image's ID
PlatformAndConfigMatch(e) ==
    /\ e.Platform = options.Platform
    /\ content[e.Digest].kind = "json"
    /\ content[e.Digest].hasConfig
    /\ content[e.Digest].ConfigDigest = retImg.ID

\* such an entry that is also declared with a media type the scan reads
RecognizedMatch(e) == e.MediaType \in RecognizedMediaTypes /\ PlatformAndConfigMatch(e)

\* the lease holds, at some position, a decodable manifest list as a content
\* resource, exactly one of whose entries is Good
LeasedListWithOne(Good(_)) ==
    \E i \in 1..Len(leases.resources) :
        LET r == leases.resources[i]
        IN  /\ r.Type = "content"
            /\ content[r.ID].kind = "json"
            /\ Cardinality({ j \in 1..Len(content[r.ID].Manifests) :
                                Good(content[r.ID].Manifests[j]) }) = 1

\* C11 as stated: a leased manifest list with exactly one entry whose platform
\* equals the requested one and whose manifest has the image's config digest
\* makes manifestMatchesPlatform return found = true, at every position of the
\* list in the lease and beside any other resources.
C11_LeasedMatchIsFound ==
    (mmp.returned /\ leases.kind = "ok" /\ LeasedListWithOne(PlatformAndConfigMatch))
    => mmp.found

\* C11 amended: the same, for an entry declared with the OCI image manifest or
\* the Docker schema 2 manifest media type.
C11_LeasedRecognizedMatchIsFound ==
    (mmp.returned /\ leases.kind = "ok" /\ LeasedListWithOne(RecognizedMatch))
    => mmp.found

C11_Witness ==
    /\ Returned
    /\ mmp.found
    /\ Len(ls) = 2
    /\ ls[1].Type = "content"
    /\ content[ls[1].ID].kind = "badjson"
    /\ ls[2].Type = "content"
    /\ Len(content[ls[2].ID].Manifests) = 2
    /\ ~RecognizedMatch(content[ls[2].ID].Manifests[1])
    /\ RecognizedMatch(content[ls[2].ID].Manifests[2])
    /\ LeasedListWithOne(RecognizedMatch)


\* C12: a GetImage call whose reference string does not parse returns an
\* InvalidParameter error and a nil record, with or without a platform option,
\* and calls neither the reference store, the image store, the lease registry
\* nor the content store.
C12_UnparseableIsInvalidParameter ==
    (pc # "idle" /\ ParseAnyReference(refOrID).kind = "invalid")
    => /\ Returned
       /\ retErr.kind = "InvalidParameter"
       /\ retImg = Nil
       /\ calls = <<>>
       /\ ~mmp.called

C12_Witness ==
    /\ Returned
    /\ refOrID = "Bad Ref"
    /\ options.Platform = Plat("linux", "arm", "v7")
    /\ retErr.kind = "InvalidParameter"
    /\ retImg = Nil
    /\ calls = <<>>

\* every lookup path of a parsed reference fails: for a digest-only reference
\* the fetch by its digest; for a named one the reference store lookup with
\* the fetch of what it names, and the search by the raw string with its fetch
LookupFails(s) ==
    IF ParseAnyReference(s).kind = "digested"
    THEN imageStore[ParseAnyReference(s).digest] = Nil
    ELSE /\ referenceStore[s] = NoID \/ imageStore[referenceStore[s]] = Nil
         /\ searchIndex[s] = NoID \/ imageStore[searchIndex[s]] = Nil

\* C13: for a reference that parses, GetImage returns ErrImageDoesNotExist
\* carrying the parsed reference, and no record, exactly when every lookup
\* path fails; a digest-only reference is never searched for by its string.
C13_NotExistIffAllLookupsFail ==
    (Returned /\ ParseAnyReference(refOrID).kind # "invalid")
    => /\ (retErr = ErrImageDoesNotExist(ParseAnyReference(refOrID).ref)) = LookupFails(refOrID)
       /\ retErr.kind = "ErrImageDoesNotExist" => (retImg = Nil /\ LookupFails(refOrID))
       /\ ~LookupFails(refOrID) => retImg # Nil
       /\ ParseAnyReference(refOrID).kind = "digested"
          => (~HasCall("imageStore.Search") /\ ~HasCall("referenceStore.Get"))

\* a named reference whose reference store entry names a missing image and
\* whose search finds another image that is missing too
C13_Witness ==
    /\ Returned
    /\ ParseAnyReference(refOrID).kind = "named"
    /\ referenceStore[refOrID] = "id1"
    /\ searchIndex[refOrID] = "id2"
    /\ imageStore["id1"] = Nil
    /\ imageStore["id2"] = Nil
    /\ retErr = ErrImageDoesNotExist(refOrID)
    /\ retImg = Nil
    /\ Len(calls) = 4


\* C14: a GetImage call whose context is cancelled after it entered the scan
\* of manifest lists issues no further call to the stores and returns a
\* cancellation error: neither the platform mismatch NotFound error nor a
\* record without error.
C14_CancelledScanReturnsCanceled ==
    (Returned /\ ctx.done /\ ctx.inScan)
    => /\ retErr.kind = "Canceled"
       /\ Len(calls) = ctx.at


Sent(sig) == \E k \in 1..Len(signals) : signals[k] = sig

\* C16: StopWithError sends an interrupt first; a kill is sent only as its
\* last signal, after five interrupts, by a call that did not receive the
\* exit from d.Wait in the 20 second wait or at the later ticks; a call that
\* received the exit sent no kill and returns what the process exited with.
C16_KillOnlyAfterFiveInterrupts ==
    /\ signals # <<>> => signals[1] = "interrupt"
    /\ Sent("kill")
       => /\ signals = <<"interrupt", "interrupt", "interrupt", "interrupt", "interrupt", "kill">>
          /\ attempt = 6
          /\ hret.call = "stop" => hret.how = "killed"
    /\ (hret.call = "stop" /\ hret.how = "exit")
       => /\ ~Sent("kill")
          /\ hret.err = exitErr

C16_Witness ==
    /\ hret = Returns("stop", "killed", Nil)
    /\ Len(signals) = 6
    /\ signals[6] = "kill"
    /\ hpc = "idle"


\* C17: StartWithLogFile returns nil only after a /_ping request of the call
\* was answered; when it returns because the daemon process exited or because
\* the 60 second deadline passed, it returns a non-nil error.
C17_StartNilOnlyAfterPing ==
    (hret.call = "start" /\ hpc = "idle")
    => /\ hret.err = Nil => answered
       /\ hret.how \in {"exited", "deadline"} => hret.err # Nil


\* the lines of the log of which f holds
Hits == Cardinality({ k \in 1..Len(logFile) : f(logFile[k]) })

\* C18: a function of ScanLogsMatchCount(f, count), used in one ScanLogs call
\* or in the repeated calls of PollCheckLogs, reports a match only when the
\* log holds at least count lines of which f holds; a line counted in one
\* scan is not counted again in a later one.
C18_MatchNeedsCountLines ==
    /\ (scanned.calls > 0 /\ scanned.ok) => Hits >= matcher.count
    /\ matcher.matched <= Hits

\* the entries of extraEnv that set the variable of a name
EntriesOf(name) == { k \in 1..Len(extraEnv) : HasPrefix(extraEnv[k], name \o <<"=">>) }

\* C19: after any sequence of SetEnvVar calls extraEnv holds exactly one entry
\* for every name set, and it carries the value of the last call for the
\* name, wherever the entry stands, the first position included.
C19_OneEntryPerName ==
    \A name \in EnvNames :
        envLatest[name] # NoValue
        => /\ Cardinality(EntriesOf(name)) = 1
           /\ \A k \in EntriesOf(name) : extraEnv[k] = name \o <<"=">> \o envLatest[name]


\* C20: an entry of a manifest list whose media type is neither the OCI image
\* manifest nor the Docker schema 2 manifest type is passed over with no call
\* to the content store and no result, and the entry a match is returned for
\* has one of the two media types, whatever the platform and the manifest of
\* the other entries are.
C20_UnrecognizedEntryIsSkipped ==
    [][/\ (/\ pc = "entries"
           /\ mi <= Len(ml)
           /\ ml[mi].MediaType \notin RecognizedMediaTypes)
          => /\ calls' = calls
             /\ mi' = mi + 1
             /\ pc' = "entries"
             /\ mmp' = mmp
             /\ m' = m
       /\ (mmp'.found /\ ~mmp.found) => ml'[mi'].MediaType \in RecognizedMediaTypes]_vars

C20_Witness ==
    /\ pc = "entries"
    /\ mi = 2
    /\ ml[1].MediaType = MediaTypeImageIndex
    /\ ml[1].Platform = options.Platform
    /\ content[ml[1].Digest] = ManifestBlob(retImg.ID)
    /\ ~WasRead(ml[1].Digest)
    /\ ~mmp.found


\* C21: the scan compares the entries of a manifest list with the baseline
\* matcher alone: an entry without a variant that the baseline matcher rejects
\* for the requested platform is passed over with no call to the content
\* store and no result, also when the matcher with fallback accepts it.
C21_EntriesUseBaselineMatcher ==
    [][(/\ pc = "entries"
        /\ mi <= Len(ml)
        /\ ml[mi].Platform.Variant = ""
        /\ ~OnlyMatch(options.Platform, ml[mi].Platform))
       => /\ calls' = calls
          /\ mi' = mi + 1
          /\ pc' = "entries"
          /\ mmp' = mmp
          /\ retErr' = retErr]_vars

C21_Witness ==
    /\ pc = "entries"
    /\ mi = 2
    /\ ml[1].MediaType \in RecognizedMediaTypes
    /\ ml[1].Platform.Variant = ""
    /\ ~OnlyMatch(options.Platform, ml[1].Platform)
    /\ Match(OnlyPlatformWithFallback(options.Platform), ml[1].Platform)
    /\ content[ml[1].Digest] = ManifestBlob(retImg.ID)
    /\ calls[Len(calls)].arg = ls[ri].ID
    /\ ~mmp.found


NoContentLeased ==
    \A k \in 1..Len(leases.resources) : leases.resources[k].Type # "content"

\* C22: the verdict of the platform check is not kept from call to call:
\* every call whose record the matcher rejects lists the resources of the
\* lease again, and what it returns follows the stores as they are now,
\* whatever an earlier call with the same reference and platform returned: a
\* match when the lease now holds a manifest list with the one matching
\* entry, the mismatch error when it now holds no content at all.
C22_VerdictIsNotCached ==
    (Returned /\ ResolvedWithPlatform /\ ~MatcherAccepts)
    => /\ HasCall("leases.ListResources")
       /\ mmp.returned
       /\ (leases.kind = "ok" /\ LeasedListWithOne(RecognizedMatch))
          => (mmp.found /\ retErr = Nil)
       /\ NoContentLeased => (~mmp.found /\ retErr.kind = "NotFound")

\* a second call that finds the match the first one did not
C22_Witness ==
    /\ Returned
    /\ prev.ref = refOrID
    /\ prev.options = options
    /\ prev.err.kind = "NotFound"
    /\ prev.img = retImg
    /\ mmp.found
    /\ retErr = Nil


\* an entry the scan takes for the match for good reason: a recognized media
\* type, a platform the baseline matcher accepts, and a manifest that was read
\* and decoded and names the image's config
DecodedMatch(e) ==
    /\ e.MediaType \in RecognizedMediaTypes
    /\ OnlyMatch(options.Platform, e.Platform)
    /\ WasRead(e.Digest)
    /\ content[e.Digest].kind = "json"
    /\ content[e.Digest].hasConfig
    /\ content[e.Digest].ConfigDigest = retImg.ID

\* C23: manifestMatchesPlatform returns found = true only if a content
\* resource of the lease was read and decoded as a manifest list with an entry
\* of a recognized media type whose platform the baseline matcher accepts and
\* whose own manifest, read and decoded without error, has the image's ID as
\* its config digest; a digest left in m by an earlier or failed decode is
\* never the match.
C23_FoundOnlyFromDecodedMatch ==
    mmp.found
    => \E i \in 1..Len(leases.resources) :
          LET r == leases.resources[i]
          IN  /\ r.Type = "content"
              /\ WasRead(r.ID)
              /\ content[r.ID].kind = "json"
              /\ \E j \in 1..Len(content[r.ID].Manifests) :
                    DecodedMatch(content[r.ID].Manifests[j])


\* C24: a GetImage call that returns an error returns no record with it, on
\* the parse and lookup failure paths and on the platform mismatch and scan
\* error paths alike.
C24_ErrorMeansNoRecord ==
    (Returned /\ retErr # Nil) => retImg = Nil


\* positions of the events of PushImage's own work: the writer goroutine and
\* distribution.Push
PushActivity ==
    { i \in 1..Len(pushLog) :
        pushLog[i].ev \in {"go writer", "distribution.Push", "Push returned",
                           "close(progressChan)", "close(writesDone)"} }
Checks == { i \in 1..Len(pushLog) : pushLog[i].ev = "GetImage" }

\* C25: PushImage with a platform has the check by GetImage return before any
\* push activity: an error of GetImage is what PushImage returns, with no
\* writer goroutine started and distribution.Push not called, and a push is
\* only ever started after a check that returned nil; with a nil platform
\* GetImage is not called at all.
C25_CheckBeforePush ==
    /\ ppc = "check" => (PushActivity = {} /\ writer = "none" /\ pret = NoReturn)
    /\ \A i \in Checks :
          /\ pushArgs.platform # Nil
          /\ i = 1
          /\ pushLog[i].err # Nil
             => /\ PushActivity = {}
                /\ writer = "none"
                /\ ppc = "idle"
                /\ pret = Returns("push", "check", pushLog[i].err)
    /\ (pushArgs.platform # Nil /\ PushActivity # {})
       => (Checks = {1} /\ pushLog[1].err = Nil)
    /\ (ppc # "idle" /\ pushArgs.platform = Nil)
       => (Checks = {} /\ pc = "idle" /\ calls = <<>>)

\* PushImage has returned the mismatch error of GetImage and nothing was pushed
C25_Witness ==
    /\ ppc = "idle"
    /\ pushArgs.platform # Nil
    /\ pret.how = "check"
    /\ pret.err.kind = "NotFound"
    /\ pushLog = <<Event("GetImage", pret.err), Event("return", pret.err)>>
    /\ writer = "none"

Position(ev) == CHOOSE i \in 1..Len(pushLog) : pushLog[i].ev = ev
Happened(ev) == \E i \in 1..Len(pushLog) : pushLog[i].ev = ev

\* C26: once PushImage has reached the push, the progress channel is closed
\* once, and after distribution.Push returned; PushImage returns only after
\* the writer goroutine has ended and closed writesDone; and with a writer
\* that takes values off the channel until it is closed, PushImage waiting
\* for writesDone always gets to return.
C26_ChannelClosedOnceAndWriterAwaited ==
    /\ [](/\ progressChan.closes <= 1
          /\ progressChan.closes = 1
             => (Happened("Push returned")
                 /\ Position("Push returned") < Position("close(progressChan)"))
          /\ ppc \in {"check", "pushing", "close"} => progressChan.closes = 0
          /\ writesDone => (writer = "done" /\ progressChan.closes = 1)
          /\ pret.how = "pushed"
             => (writesDone /\ progressChan.closes = 1 /\ pret.err = pushErr))
    /\ (ppc = "waiting" ~> (ppc = "idle" /\ pret.how = "pushed"))

\* PushImage waits for writesDone while the writer still has values to write
C26_Witness ==
    /\ ppc = "waiting"
    /\ ~writesDone
    /\ writer = "running"
    /\ progressChan = [q |-> MaxProgress, closes |-> 1]
    /\ pushErr = ErrPush


\* C27: when StopWithError returns nil the daemon process has exited: the
\* call has waited for it on every path, the one that ends with the kill after
\* the interrupts went unanswered included.
C27_StopNilMeansExited ==
    (hpc = "idle" /\ hret.call = "stop" /\ hret.err = Nil)
    => proc \notin {"running", "serving"}

=============================================================================
